---- MODULE Spec2Model ----
(***************************************************************************)
(* Model of the testnet deployment pipeline (src/src/deploy.rs,            *)
(* DeployCmd::execute and its extra-vars builders) and of the private-node *)
(* sub-pipeline (src/src/private_nodes.rs, setup_private_nodes).           *)
(*                                                                         *)
(* Text is modelled as a sequence of fragments: a document is a sequence   *)
(* of tokens, a name or an address is a sequence of strings.  Collaborator *)
(* calls (terraform, ansible, ssh, inventory) are nondeterministic: each   *)
(* returns Ok or Err, and a lookup returns a list of any length.  A Rust   *)
(* panic (index out of bounds, unwrap on None) ends the run with the       *)
(* status "panic": the function does not return a value.                   *)
(***************************************************************************)
EXTENDS Naturals, Sequences, FiniteSets, TLC

VARIABLES cmd, cfg, inv, pc, n, total, node_provision_failed,
          genesis_multiaddr, private_vm_inventory, nat_gateway_inventory,
          calls, out, result, extra_vars

vars == <<cmd, cfg, inv, pc, n, total, node_provision_failed,
          genesis_multiaddr, private_vm_inventory, nat_gateway_inventory,
          calls, out, result, extra_vars>>

(***************************************************************************)
(* Bounds of the model.                                                    *)
(***************************************************************************)
\* longest list of log-shipping hosts
MaxHosts == 2
\* longest list of environment variables
MaxEnv == 1
\* longest host group an inventory lookup returns
MaxInv == 2
\* largest number of node VMs in a snapshot
MaxNodes == 3
\* largest index a node VM's name carries
MaxIdx == 10

(***************************************************************************)
(* Text helpers.                                                           *)
(***************************************************************************)
RECURSIVE ToDigits(_)
\* the decimal rendering of a number, one fragment per digit
ToDigits(k) ==
    LET d == CASE k % 10 = 0 -> "0" [] k % 10 = 1 -> "1" [] k % 10 = 2 -> "2"
               [] k % 10 = 3 -> "3" [] k % 10 = 4 -> "4" [] k % 10 = 5 -> "5"
               [] k % 10 = 6 -> "6" [] k % 10 = 7 -> "7" [] k % 10 = 8 -> "8"
               [] OTHER -> "9"
    IN IF k < 10 THEN <<d>> ELSE Append(ToDigits(k \div 10), d)

\* str::contains: pat occurs as a contiguous run of s
Contains(s, pat) ==
    \E i \in 1..(Len(s) + 1) :
        /\ i + Len(pat) - 1 <= Len(s)
        /\ SubSeq(s, i, i + Len(pat) - 1) = pat

\* bool::to_string
BoolToString(b) == IF b THEN "true" ELSE "false"

RECURSIVE Join(_, _)
\* [String]::join(sep) over a list of fragment sequences
Join(ss, sep) ==
    IF Len(ss) = 0 THEN <<>>
    ELSE IF Len(ss) = 1 THEN ss[1]
    ELSE ss[1] \o <<sep>> \o Join(Tail(ss), sep)

(***************************************************************************)
(* Extra-vars documents: a document is the sequence of the pieces that     *)
(* the builders push onto the String.                                      *)
(***************************************************************************)
Tok(t, k, v) == [t |-> t, k |-> k, v |-> v]
\* "{ "
OpenTok == Tok("{ ", "", <<>>)
\* ", "
SepTok == Tok(", ", "", <<>>)
\* "\"name\": \"value\""
KvTok(name, value) == Tok("kv", name, value)
\* "\"logstash_hosts\": ["
ArrOpenTok == Tok("[", "logstash_hosts", <<>>)
\* "\"host\""
ElemTok(host) == Tok("elem", "", host)
\* "]"
ArrCloseTok == Tok("]", "", <<>>)
\* "}"
CloseTok == Tok("}", "", <<>>)
\* " }"
SpaceCloseTok == Tok(" }", "", <<>>)

\* document.push_str(&format!("\"{name}\": \"{value}\", "))
add_value(document, name, value) == document \o <<KvTok(name, value), SepTok>>

\* str::strip_suffix(", "): None unless the text ends with the separator
strip_suffix(document) ==
    IF Len(document) > 0 /\ document[Len(document)] = SepTok
    THEN [some |-> TRUE, v |-> SubSeq(document, 1, Len(document) - 1)]
    ELSE [some |-> FALSE, v |-> document]

\* the outcome of a builder: Ok(document), Err(error) or a panic
DocOk(d) == [status |-> "ok", doc |-> d, err |-> ""]
DocPanic == [status |-> "panic", doc |-> <<>>, err |-> ""]
DocErr(e) == [status |-> "err", doc |-> <<>>, err |-> e]

\* Option<T>
None == [some |-> FALSE, v |-> ""]
Some(x) == [some |-> TRUE, v |-> x]
NoneCount == [some |-> FALSE, v |-> 0]
NoneList == [some |-> FALSE, v |-> <<>>]
\* Option::ok_or_else
ok_or_else(opt, e) ==
    IF opt.some THEN [ok |-> TRUE, v |-> opt.v, err |-> ""]
    ELSE [ok |-> FALSE, v |-> opt.v, err |-> e]
NoLogstash == [some |-> FALSE, stack |-> "", hosts |-> <<>>]

(***************************************************************************)
(* SnCodebaseType and the configuration held by DeployCmd.                 *)
(***************************************************************************)
Main(features) ==
    [tag |-> "Main", repo_owner |-> "", branch |-> "",
     safenode_features |-> features, safenode_version |-> ""]
Branch(owner, br, features) ==
    [tag |-> "Branch", repo_owner |-> owner, branch |-> br,
     safenode_features |-> features, safenode_version |-> ""]
Versioned(version) ==
    [tag |-> "Versioned", repo_owner |-> "", branch |-> "",
     safenode_features |-> None, safenode_version |-> version]

SnCodebaseTypes ==
    { Main(None), Main(Some("f1,f2")),
      Branch("alice", "dev", None), Branch("alice", "dev", Some("f1,f2")),
      Versioned("1.2.3") }

\* the cloud provider's identifier, as CloudProvider::to_string gives it
Providers == {"aws", "digital-ocean"}

\* CloudProvider::get_ssh_user: the login user of the provider's images
get_ssh_user(provider) == <<"ssh-user-of", provider>>

LogstashHosts == <<<<"10.0.0.1:5044">>, <<"10.0.0.2:5044">>, <<"10.0.0.3:5044">>>>
LogstashDetails ==
    {NoLogstash} \cup
    { [some |-> TRUE, stack |-> "stack", hosts |-> SubSeq(LogstashHosts, 1, k)] :
        k \in 0..MaxHosts }

EnvPairs == <<<<"K1", "v1">>, <<"K2", "v2">>>>
EnvVariables ==
    {NoneList} \cup { [some |-> TRUE, v |-> SubSeq(EnvPairs, 1, k)] : k \in 0..MaxEnv }

\* DeployCmd::new: the fields of the command
DeployCmds ==
    [ name : {"net"}, node_count : {7}, vm_count : {3},
      public_rpc : BOOLEAN, logstash_details : LogstashDetails,
      sn_codebase_type : SnCodebaseTypes, env_variables : EnvVariables,
      cloud_provider : Providers ]

NoDeployCmd ==
    [ name |-> "", node_count |-> 0, vm_count |-> 0, public_rpc |-> FALSE,
      logstash_details |-> NoLogstash, sn_codebase_type |-> Versioned(""),
      env_variables |-> NoneList, cloud_provider |-> "" ]

(***************************************************************************)
(* The extra-vars builders.                                                *)
(***************************************************************************)
S3 == "https://sn-node.s3.eu-west-2.amazonaws.com/"
MuslTarGz == "-x86_64-unknown-linux-musl.tar.gz"

\* format!("https://sn-node.s3.../{}/{}/<artifact>-{}-x86_64-...", owner, branch, name)
BranchUrl(owner, br, artifact, name) ==
    <<S3, owner, "/", br, "/", artifact, "-", name, MuslTarGz>>

build_binaries_extra_vars_doc(c) ==
    LET t == c.sn_codebase_type
        d0 == <<OpenTok>>
        d1 == CASE t.tag = "Main" ->
                     IF t.safenode_features.some
                     THEN add_value(add_value(add_value(add_value(add_value(d0,
                              "custom_bin", <<"true">>),
                              "testnet_name", <<c.name>>),
                              "org", <<"maidsafe">>),
                              "branch", <<"main">>),
                              "safenode_features_list", <<t.safenode_features.v>>)
                     ELSE add_value(d0, "custom_bin", <<"false">>)
                [] t.tag = "Branch" ->
                     LET b == add_value(add_value(add_value(add_value(d0,
                                  "custom_bin", <<"true">>),
                                  "testnet_name", <<c.name>>),
                                  "org", <<t.repo_owner>>),
                                  "branch", <<t.branch>>)
                     IN IF t.safenode_features.some
                        THEN add_value(b, "safenode_features_list",
                                       <<t.safenode_features.v>>)
                        ELSE b
                [] OTHER -> add_value(d0, "custom_bin", <<"false">>)
        s == strip_suffix(d1)
    IN IF ~s.some THEN DocPanic ELSE DocOk(Append(s.v, SpaceCloseTok))

\* a locator match whose Versioned arm also writes the archive url
node_artifact_locator_with_url(d, c) ==
    LET t == c.sn_codebase_type
    IN CASE t.tag = "Main" ->
              add_value(d, "node_archive_url",
                  IF t.safenode_features.some
                  THEN <<S3, "maidsafe/main/safenode-", c.name, MuslTarGz>>
                  ELSE <<S3, "safenode-latest", MuslTarGz>>)
         [] t.tag = "Branch" ->
              add_value(d, "node_archive_url",
                  BranchUrl(t.repo_owner, t.branch, "safenode", c.name))
         [] OTHER ->
              add_value(add_value(d, "version", <<t.safenode_version>>),
                  "node_archive_url", <<S3, "safenode-latest", MuslTarGz>>)

\* the first `match &self.sn_codebase_type` of the node builder: the node
\* artifact is located by url for Main and Branch, by version for Versioned
node_artifact_locator(d, c) ==
    LET t == c.sn_codebase_type
    IN CASE t.tag = "Main" ->
              add_value(d, "node_archive_url",
                  IF t.safenode_features.some
                  THEN <<S3, "maidsafe/main/safenode-", c.name, MuslTarGz>>
                  ELSE <<S3, "safenode-latest", MuslTarGz>>)
         [] t.tag = "Branch" ->
              add_value(d, "node_archive_url",
                  BranchUrl(t.repo_owner, t.branch, "safenode", c.name))
         [] OTHER -> add_value(d, "version", <<t.safenode_version>>)

build_node_extra_vars_doc(c, gm, node_instance_count) ==
    LET t == c.sn_codebase_type
        d0 == <<OpenTok>>
        d1 == add_value(d0, "provider", <<c.cloud_provider>>)
        d2 == add_value(d1, "testnet_name", <<c.name>>)
        g == ok_or_else(gm, "GenesisMultiAddrNotSupplied")
        d3 == IF gm.some THEN add_value(d2, "genesis_multiaddr", <<g.v>>) ELSE d2
        d4 == IF node_instance_count.some
              THEN add_value(d3, "node_instance_count",
                             ToDigits(IF node_instance_count.some
                                      THEN node_instance_count.v ELSE 20))
              ELSE d3
        d5 == IF c.public_rpc THEN add_value(d4, "public_rpc", <<"true">>) ELSE d4
        d6 == node_artifact_locator(d5, c)
        d7 == IF t.tag = "Branch"
              THEN add_value(add_value(add_value(d6,
                       "branch", <<t.branch>>),
                       "org", <<t.repo_owner>>),
                       "node_manager_archive_url",
                       BranchUrl(t.repo_owner, t.branch, "safenode-manager", c.name))
              ELSE add_value(d6, "node_manager_archive_url",
                       <<"https://sn-node-manager.s3.eu-west-2.amazonaws.com/",
                         "safenode-manager-latest", MuslTarGz>>)
        d8 == IF t.tag = "Branch"
              THEN add_value(add_value(add_value(d7,
                       "branch", <<t.branch>>),
                       "org", <<t.repo_owner>>),
                       "node_manager_daemon_archive_url",
                       BranchUrl(t.repo_owner, t.branch, "safenode-manager-daemon",
                                 c.name))
              ELSE add_value(d7, "node_manager_archive_url",
                       <<"https://sn-node-manager.s3.eu-west-2.amazonaws.com/",
                         "safenode-manager-daemon-latest", MuslTarGz>>)
        d9 == IF c.env_variables.some
              THEN add_value(d8, "env_variables",
                       Join([i \in 1..Len(c.env_variables.v) |->
                               <<c.env_variables.v[i][1], "=",
                                 c.env_variables.v[i][2]>>], ","))
              ELSE d8
        hosts == c.logstash_details.hosts
        RECURSIVE PushHosts(_, _)
        PushHosts(d, i) ==
            IF i > Len(hosts) THEN d
            ELSE PushHosts(d \o <<ElemTok(hosts[i]), SepTok>>, i + 1)
        \* the text of the outer binding after the log-shipping block
        d10 == IF c.logstash_details.some
               THEN PushHosts(Append(add_value(d9, "logstash_stack_name",
                                               <<c.logstash_details.stack>>),
                                     ArrOpenTok), 1)
               ELSE d9
        \* the inner `let mut extra_vars` shadows the outer one: the stripped
        \* text and its "]" are dropped at the end of the block
        inner == strip_suffix(d10)
    IN IF gm.some /\ ~g.ok THEN DocErr(g.err)
       ELSE IF c.logstash_details.some /\ ~inner.some THEN DocPanic
       ELSE DocOk(Append(d10, CloseTok))

\* the variant-scoped archive url of the faucet and RPC-client documents
ArchiveUrlDoc(c, gm, key, artifact, latest) ==
    LET t == c.sn_codebase_type
        d0 == <<OpenTok>>
        d1 == add_value(d0, "provider", <<c.cloud_provider>>)
        d2 == add_value(d1, "testnet_name", <<c.name>>)
        d3 == add_value(d2, "genesis_multiaddr", <<gm>>)
        d4 == IF t.tag = "Branch"
              THEN add_value(add_value(add_value(d3,
                       "branch", <<t.branch>>),
                       "org", <<t.repo_owner>>),
                       key, BranchUrl(t.repo_owner, t.branch, artifact, c.name))
              ELSE add_value(d3, key, latest)
        s == strip_suffix(d4)
    IN IF ~s.some THEN DocPanic ELSE DocOk(Append(s.v, SpaceCloseTok))

build_faucet_extra_vars_doc(c, gm) ==
    ArchiveUrlDoc(c, gm, "faucet_archive_url", "faucet",
        <<"https://sn-faucet.s3.eu-west-2.amazonaws.com/", "faucet-latest", MuslTarGz>>)

build_safenode_rpc_client_extra_vars_doc(c, gm) ==
    ArchiveUrlDoc(c, gm, "safenode_rpc_client_archive_url", "safenode_rpc_client",
        <<"https://sn-node-rpc-client.s3.eu-west-2.amazonaws.com/",
          "safenode_rpc_client-latest", MuslTarGz>>)

(***************************************************************************)
(* Collaborator calls and printed output.  Every call a run makes is       *)
(* appended to `calls` with its result; every line a run prints is         *)
(* appended to `out`.                                                      *)
(***************************************************************************)
NoVm == [name |-> <<>>, public_ip_addr |-> <<>>, private_ip_addr |-> <<>>]

Call(stage, op) ==
    [ stage |-> stage, op |-> op, target |-> "", inventory |-> <<>>,
      refresh |-> FALSE, user |-> <<>>, args |-> <<>>, hasdoc |-> FALSE,
      doc |-> <<>>, addr |-> <<>>, vm |-> NoVm, nat |-> NoVm,
      res |-> "ok", list |-> <<>>, value |-> "" ]

Line(text) == [kind |-> "line", text |-> text, n |-> 0, total |-> 0]

\* print_ansible_run_banner(n, total, s)
print_ansible_run_banner(k, tot, s) ==
    [kind |-> "banner", text |-> s, n |-> k, total |-> tot]

\* the outcomes of a collaborator call that returns Result<()>
Res == {"ok", "err"}

\* the Result of a stage: Ok(()), Err(e), or no value at all (panic)
Ok == [status |-> "ok", err |-> ""]
Err(e) == [status |-> "err", err |-> e]
Panic == [status |-> "panic", err |-> ""]
Running == [status |-> "running", err |-> ""]

\* the error a failed collaborator call returns
CollaboratorError(op) == Err(op)

\* the outcome of a stage function: the calls it made, what it printed, its Result
Outcome(cs, o, r) == [calls |-> cs, out |-> o, res |-> r]

\* PathBuf::from("inventory").join(format!(".{}_<role>_inventory_digital_ocean.yml", name))
InventoryPath(name, role) ==
    <<"inventory/", ".", name, "_", role, "_inventory_", "digital_ocean", ".yml">>

\* the host groups an inventory lookup can return: (name, address) pairs
InventoryHosts(role) ==
    [i \in 1..(MaxInv + 1) |-> [name |-> <<role, "-">> \o ToDigits(i),
                                ip |-> <<"192.0.2.">> \o ToDigits(i)]]
InventoryLists(role) == { SubSeq(InventoryHosts(role), 1, k) : k \in 0..MaxInv }

\* the multiaddresses the genesis node can report
Multiaddrs == {"/ip4/192.0.2.1/tcp/1", "/ip4/192.0.2.2/tcp/2"}

\* what an inventory lookup can return: Err, or Ok with a group of any size
InventoryResults(role) ==
    {[res |-> "err", list |-> <<>>]} \cup
    {[res |-> "ok", list |-> l] : l \in InventoryLists(role)}

(***************************************************************************)
(* The stage functions of DeployCmd.  Each takes the results that the      *)
(* collaborators give during the stage and yields the stage's Outcome.     *)
(***************************************************************************)
create_infra(c, enable_build_vm, r_select, r_apply) ==
    LET select == [Call("infra", "workspace_select") EXCEPT
                      !.target = c.name, !.res = r_select]
        apply == [Call("infra", "apply") EXCEPT
                      !.args = << [k |-> "node_count", v |-> ToDigits(c.vm_count)],
                                  [k |-> "use_custom_bin",
                                   v |-> <<BoolToString(enable_build_vm)>>] >>,
                      !.res = r_apply]
    IN IF r_select = "err"
       THEN Outcome(<<select>>, <<Line("Selecting workspace...")>>,
                    CollaboratorError("workspace_select"))
       ELSE Outcome(<<select, apply>>,
                    <<Line("Selecting workspace..."), Line("Running terraform apply...")>>,
                    IF r_apply = "err" THEN CollaboratorError("apply") ELSE Ok)

\* a wait whose result is not looked at
WaitFailed_ignored(r_ssh) == FALSE

\* wait_for_ssh_availability(..)?: a timeout returns from the stage
WaitFailed(r_ssh) == r_ssh = "err"

\* the shape shared by build_safe_network_binaries and provision_genesis_node:
\* look the host group up, take its first entry, wait for SSH, run the playbook
LookupWaitRun(c, stage, role, playbook, pre, mid, built, lookup, r_ssh, r_play) ==
    LET list == [Call(stage, "inventory_list") EXCEPT
                    !.inventory = InventoryPath(c.name, role), !.refresh = TRUE,
                    !.res = lookup.res, !.list = lookup.list]
        \* build_inventory[0].1
        ip == lookup.list[1].ip
        wait == [Call(stage, "wait_for_ssh_availability") EXCEPT
                    !.addr = ip, !.user = get_ssh_user(c.cloud_provider),
                    !.res = r_ssh]
        run == [Call(stage, "run_playbook") EXCEPT
                    !.target = playbook, !.inventory = InventoryPath(c.name, role),
                    !.user = get_ssh_user(c.cloud_provider),
                    !.hasdoc = TRUE, !.doc = built.doc, !.res = r_play]
    IN IF lookup.res = "err"
       THEN Outcome(<<list>>, pre, CollaboratorError("inventory_list"))
       ELSE IF Len(lookup.list) = 0
       THEN Outcome(<<list>>, pre, Panic)
       ELSE IF WaitFailed(r_ssh)
       THEN Outcome(<<list, wait>>, pre, CollaboratorError("wait_for_ssh_availability"))
       ELSE IF built.status = "panic"
       THEN Outcome(<<list, wait>>, pre \o mid, Panic)
       ELSE IF built.status = "err"
       THEN Outcome(<<list, wait>>, pre \o mid, Err(built.err))
       ELSE Outcome(<<list, wait, run>>, pre \o mid,
                    IF r_play = "err" THEN CollaboratorError("run_playbook") ELSE Ok)

build_safe_network_binaries(c, lookup, r_ssh, r_play) ==
    LookupWaitRun(c, "build", "build", "build.yml",
                  <<Line("Obtaining IP address for build VM...")>>,
                  <<Line("Running ansible against build VM...")>>,
                  build_binaries_extra_vars_doc(c), lookup, r_ssh, r_play)

\* a genesis stage that passes the node count as the node stage does
provision_genesis_node_with_count(c, lookup, r_ssh, r_play) ==
    LookupWaitRun(c, "genesis", "genesis", "genesis_node.yml", <<>>, <<>>,
                  build_node_extra_vars_doc(c, None,
                                            [some |-> TRUE, v |-> c.node_count]),
                  lookup, r_ssh, r_play)

provision_genesis_node(c, lookup, r_ssh, r_play) ==
    LookupWaitRun(c, "genesis", "genesis", "genesis_node.yml", <<>>, <<>>,
                  build_node_extra_vars_doc(c, None, NoneCount),
                  lookup, r_ssh, r_play)

\* the shape shared by the stages that only run a playbook with a document
RunWithDoc(c, stage, role, playbook, pre, built, r_play) ==
    LET run == [Call(stage, "run_playbook") EXCEPT
                    !.target = playbook, !.inventory = InventoryPath(c.name, role),
                    !.user = get_ssh_user(c.cloud_provider),
                    !.hasdoc = TRUE, !.doc = built.doc, !.res = r_play]
    IN IF built.status = "panic" THEN Outcome(<<>>, pre, Panic)
       ELSE IF built.status = "err" THEN Outcome(<<>>, pre, Err(built.err))
       ELSE Outcome(<<run>>, pre,
                    IF r_play = "err" THEN CollaboratorError("run_playbook") ELSE Ok)

provision_faucet(c, gm, r_play) ==
    RunWithDoc(c, "faucet", "genesis", "faucet.yml",
               <<Line("Running ansible against genesis node to deploy faucet...")>>,
               build_faucet_extra_vars_doc(c, gm), r_play)

provision_safenode_rpc_client(c, gm, r_play) ==
    RunWithDoc(c, "rpc", "genesis", "safenode_rpc_client.yml",
               <<Line("Running ansible against genesis node to start safenode_rpc_client service...")>>,
               build_safenode_rpc_client_extra_vars_doc(c, gm), r_play)

\* a node stage that is given no genesis address
provision_remaining_nodes_no_addr(c, gm, r_play) ==
    RunWithDoc(c, "nodes", "node", "nodes.yml", <<>>,
               build_node_extra_vars_doc(c, None,
                                         [some |-> TRUE, v |-> c.node_count]),
               r_play)

provision_remaining_nodes(c, gm, r_play) ==
    RunWithDoc(c, "nodes", "node", "nodes.yml", <<>>,
               build_node_extra_vars_doc(c, Some(gm),
                                         [some |-> TRUE, v |-> c.node_count]),
               r_play)

(***************************************************************************)
(* DeployCmd::execute, one action per stage (the run is suspended only at  *)
(* the awaits between them).                                               *)
(***************************************************************************)
\* a resolver that asks for a build whenever the variant is not Versioned
build_custom_binaries_always_main(t) ==
    CASE t.tag = "Main" -> TRUE
      [] t.tag = "Branch" -> TRUE
      [] OTHER -> FALSE

\* a resolver that also asks for a build for a Versioned variant
build_custom_binaries_also_versioned(t) ==
    CASE t.tag = "Main" -> t.safenode_features.some
      [] t.tag = "Branch" -> TRUE
      [] OTHER -> TRUE

\* whether the build stage is required
build_custom_binaries(t) ==
    CASE t.tag = "Main" -> t.safenode_features.some
      [] t.tag = "Branch" -> TRUE
      [] OTHER -> FALSE

\* a `?` that is missing: only a panic leaves execute
Propagates_dropped(r) == r.status = "panic"

\* the `?` after a stage: anything but Ok(()) leaves execute
Propagates(r) == r.status # "ok"

\* a body of execute with the faucet and RPC-client stages exchanged
NextStage_swapped(p, build) ==
    CASE p = "create_infra" -> IF build THEN "build" ELSE "genesis"
      [] p = "build" -> "genesis"
      [] p = "genesis" -> "get_genesis_multiaddr"
      [] p = "get_genesis_multiaddr" -> "nodes"
      [] p = "nodes" -> "rpc"
      [] p = "rpc" -> "faucet"
      [] p = "faucet" -> "list"
      [] OTHER -> "done"

\* the stage that follows stage p in the body of execute
NextStage(p, build) ==
    CASE p = "create_infra" -> IF build THEN "build" ELSE "genesis"
      [] p = "build" -> "genesis"
      [] p = "genesis" -> "get_genesis_multiaddr"
      [] p = "get_genesis_multiaddr" -> "nodes"
      [] p = "nodes" -> "faucet"
      [] p = "faucet" -> "rpc"
      [] p = "rpc" -> "list"
      [] OTHER -> "done"

\* a stage whose error is fatal: stage(..).await.map_err(|err| { println!(..); err })?
FatalStage(o, banner, failed, bump) ==
    /\ calls' = calls \o o.calls
    /\ out' = out \o banner \o o.out \o
              (IF o.res.status = "err" THEN <<Line(failed)>> ELSE <<>>)
    /\ result' = IF Propagates(o.res) THEN o.res ELSE result
    /\ pc' = IF Propagates(o.res) THEN "done"
             ELSE NextStage(pc, build_custom_binaries(cfg.sn_codebase_type))
    /\ n' = IF Propagates(o.res) THEN n ELSE n + bump

\* a total that does not count the build run
total_runs_fixed(b) == 4

\* let total = if build_custom_binaries { 5 } else { 4 }
total_runs(b) == IF b THEN 5 ELSE 4

CreateInfra ==
    /\ cmd = "deploy" /\ pc = "create_infra"
    /\ \E r_select \in Res, r_apply \in Res :
         LET b == build_custom_binaries(cfg.sn_codebase_type)
             o == create_infra(cfg, b, r_select, r_apply)
         IN /\ calls' = calls \o o.calls
            /\ out' = out \o o.out \o
                      (IF o.res.status = "err"
                       THEN <<Line("Failed to create infra")>> ELSE <<>>)
            /\ result' = IF Propagates(o.res) THEN o.res ELSE result
            /\ pc' = IF Propagates(o.res) THEN "done" ELSE NextStage(pc, b)
            /\ n' = IF Propagates(o.res) THEN n ELSE 1
            /\ total' = IF Propagates(o.res) THEN total ELSE total_runs(b)
    /\ UNCHANGED <<extra_vars, cmd, cfg, inv, node_provision_failed, genesis_multiaddr,
                   private_vm_inventory, nat_gateway_inventory>>

BuildSafeNetworkBinaries ==
    /\ cmd = "deploy" /\ pc = "build"
    /\ \E lookup \in InventoryResults("build"), r_ssh \in Res, r_play \in Res :
         FatalStage(build_safe_network_binaries(cfg, lookup, r_ssh, r_play),
                    <<print_ansible_run_banner(n, total, "Build Custom Binaries")>>,
                    "Failed to build safe network binaries", 1)
    /\ UNCHANGED <<extra_vars, cmd, cfg, inv, total, node_provision_failed, genesis_multiaddr,
                   private_vm_inventory, nat_gateway_inventory>>

ProvisionGenesisNode ==
    /\ cmd = "deploy" /\ pc = "genesis"
    /\ \E lookup \in InventoryResults("genesis"), r_ssh \in Res, r_play \in Res :
         FatalStage(provision_genesis_node(cfg, lookup, r_ssh, r_play),
                    <<print_ansible_run_banner(n, total, "Provision Genesis Node")>>,
                    "Failed to provision genesis node", 1)
    /\ UNCHANGED <<extra_vars, cmd, cfg, inv, total, node_provision_failed, genesis_multiaddr,
                   private_vm_inventory, nat_gateway_inventory>>

GetGenesisMultiaddr ==
    /\ cmd = "deploy" /\ pc = "get_genesis_multiaddr"
    /\ \E r \in Res, a \in Multiaddrs :
         LET get == [Call("discover", "get_genesis_multiaddr") EXCEPT
                        !.target = cfg.name, !.res = r,
                        !.value = IF r = "ok" THEN a ELSE ""]
             o == Outcome(<<get>>,
                          IF r = "ok"
                          THEN <<Line("Obtained multiaddr for genesis node")>>
                          ELSE <<>>,
                          IF r = "err" THEN CollaboratorError("get_genesis_multiaddr")
                          ELSE Ok)
         IN /\ FatalStage(o, <<>>, "Failed to get genesis multiaddr", 0)
            /\ genesis_multiaddr' = IF r = "ok" THEN a ELSE genesis_multiaddr
    /\ UNCHANGED <<extra_vars, cmd, cfg, inv, total, node_provision_failed,
                   private_vm_inventory, nat_gateway_inventory>>

\* a match whose Err arm forgets the flag
node_failed_forgotten(r) == FALSE

\* match result { Ok(()) => .., Err(_) => node_provision_failed = true }
node_failed(r) == r.status = "err"

ProvisionRemainingNodes ==
    /\ cmd = "deploy" /\ pc = "nodes"
    /\ \E r_play \in Res :
         LET o == provision_remaining_nodes(cfg, genesis_multiaddr, r_play)
         IN /\ calls' = calls \o o.calls
            /\ out' = out \o
                      <<print_ansible_run_banner(n, total, "Provision Remaining Nodes")>>
                      \o o.out \o
                      (IF o.res.status = "ok"
                       THEN <<Line("Provisioned all remaining nodes")>> ELSE <<>>)
            /\ node_provision_failed' = node_failed(o.res)
            /\ result' = IF o.res.status = "panic" THEN o.res ELSE result
            /\ pc' = IF o.res.status = "panic" THEN "done"
                     ELSE NextStage(pc, build_custom_binaries(cfg.sn_codebase_type))
            /\ n' = IF o.res.status = "panic" THEN n ELSE n + 1
    /\ UNCHANGED <<extra_vars, cmd, cfg, inv, total, genesis_multiaddr,
                   private_vm_inventory, nat_gateway_inventory>>

ProvisionFaucet ==
    /\ cmd = "deploy" /\ pc = "faucet"
    /\ \E r_play \in Res :
         FatalStage(provision_faucet(cfg, genesis_multiaddr, r_play),
                    <<print_ansible_run_banner(n, total, "Deploy Faucet")>>,
                    "Failed to provision faucet", 1)
    /\ UNCHANGED <<extra_vars, cmd, cfg, inv, total, node_provision_failed, genesis_multiaddr,
                   private_vm_inventory, nat_gateway_inventory>>

ProvisionSafenodeRpcClient ==
    /\ cmd = "deploy" /\ pc = "rpc"
    /\ \E r_play \in Res :
         FatalStage(provision_safenode_rpc_client(cfg, genesis_multiaddr, r_play),
                    <<print_ansible_run_banner(n, total,
                                               "Provision RPC Client on Genesis Node")>>,
                    "Failed to provision safenode rpc client", 0)
    /\ UNCHANGED <<extra_vars, cmd, cfg, inv, total, node_provision_failed, genesis_multiaddr,
                   private_vm_inventory, nat_gateway_inventory>>

\* the warning block printed before Ok(()) when the node stage failed
Warning ==
    << Line(""), Line("WARNING!"),
       Line("Some nodes failed to provision without error."),
       Line("This usually means a small number of nodes failed to start on a few VMs."),
       Line("However, most of the time the deployment will still be usable."),
       Line("See the output from Ansible to determine which VMs had failures.") >>

\* an execute that prints the warning block before the final listing
ListInventory_warning_first ==
    /\ cmd = "deploy" /\ pc = "list"
    /\ \E r \in Res :
         LET list == [Call("list", "list_inventory") EXCEPT
                         !.target = cfg.name, !.refresh = TRUE,
                         !.args = << [k |-> "node_count",
                                      v |-> ToDigits(cfg.node_count)] >>,
                         !.res = r]
             res == IF r = "err" THEN CollaboratorError("list_inventory") ELSE Ok
         IN /\ calls' = calls \o <<list>>
            /\ out' = out \o
                      (IF node_provision_failed THEN Warning ELSE <<>>)
                      \o
                      (IF r = "err" THEN <<Line("Failed to list inventory")>> ELSE <<>>)
            /\ result' = IF Propagates(res) THEN res ELSE Ok
            /\ pc' = "done"
    /\ UNCHANGED <<extra_vars, cmd, cfg, inv, n, total, node_provision_failed,
                   genesis_multiaddr, private_vm_inventory, nat_gateway_inventory>>

\* the final listing, then the warning and Ok(()): no await separates them
ListInventory ==
    /\ cmd = "deploy" /\ pc = "list"
    /\ \E r \in Res :
         LET list == [Call("list", "list_inventory") EXCEPT
                         !.target = cfg.name, !.refresh = TRUE,
                         !.args = << [k |-> "node_count",
                                      v |-> ToDigits(cfg.node_count)] >>,
                         !.res = r]
             res == IF r = "err" THEN CollaboratorError("list_inventory") ELSE Ok
         IN /\ calls' = calls \o <<list>>
            /\ out' = out \o
                      (IF r = "err" THEN <<Line("Failed to list inventory")>> ELSE <<>>)
                      \o
                      (IF ~Propagates(res) /\ node_provision_failed
                       THEN Warning ELSE <<>>)
            /\ result' = IF Propagates(res) THEN res ELSE Ok
            /\ pc' = "done"
    /\ UNCHANGED <<extra_vars, cmd, cfg, inv, n, total, node_provision_failed, genesis_multiaddr,
                   private_vm_inventory, nat_gateway_inventory>>

(***************************************************************************)
(* The snapshot given to setup_private_nodes.                              *)
(***************************************************************************)
\* a VM of a role group, named <deployment>-<role>-<index>
Vm(name, role, i) ==
    [ name |-> <<name, "-", role, "-">> \o ToDigits(i),
      public_ip_addr |-> <<"203.0.113.">> \o ToDigits(i),
      private_ip_addr |-> <<"10.0.0.">> \o ToDigits(i) ]

\* the lists of up to MaxNodes distinct indices out of 1..MaxIdx
IndexLists ==
    UNION { { s \in [1..k -> 1..MaxIdx] :
                \A i, j \in 1..k : i # j => s[i] # s[j] } : k \in 0..MaxNodes }

VmGroup(name, role, k) == [i \in 1..k |-> Vm(name, role, i)]

\* DeploymentInventory: the role groups and the environment details
DeploymentInventories ==
    { [ name |-> "net",
        node_vms |-> [i \in 1..Len(idx) |-> Vm("net", "node", idx[i])],
        auditor_vms |-> VmGroup("net", "auditor", others),
        bootstrap_node_vms |-> VmGroup("net", "bootstrap-node", others),
        uploader_vms |-> VmGroup("net", "uploader", others),
        deployment_type |-> dt,
        environment_type |-> "Development" ] :
      idx \in IndexLists, others \in 0..1, dt \in {"New", "Bootstrap"} }

NoDeploymentInventory ==
    [ name |-> "", node_vms |-> <<>>, auditor_vms |-> <<>>,
      bootstrap_node_vms |-> <<>>, uploader_vms |-> <<>>,
      deployment_type |-> "", environment_type |-> "" ]

\* what get_inventory(NatGateway, true) can return
NatGatewayResults ==
    {[res |-> "err", list |-> <<>>]} \cup
    {[res |-> "ok", list |-> VmGroup("net", "nat-gateway", k)] : k \in 0..MaxInv}

(***************************************************************************)
(* TestnetDeployer::setup_private_nodes.                                   *)
(***************************************************************************)
\* a find that yields a default VM when nothing matches
find_or_default(vms, pat) ==
    LET hits == {i \in 1..Len(vms) : Contains(vms[i].name, pat)}
    IN IF hits = {} THEN [some |-> TRUE, v |-> NoVm]
       ELSE [some |-> TRUE, v |-> vms[CHOOSE i \in hits : \A j \in hits : i <= j]]

\* Iterator::find: the first VM whose name contains the pattern
find(vms, pat) ==
    LET hits == {i \in 1..Len(vms) : Contains(vms[i].name, pat)}
    IN IF hits = {} THEN [some |-> FALSE, v |-> NoVm]
       ELSE [some |-> TRUE, v |-> vms[CHOOSE i \in hits : \A j \in hits : i <= j]]

\* format!("{}-node-{}", name, node_vms.len())
LastNodePattern(i) == <<i.name, "-", "node", "-">> \o ToDigits(Len(i.node_vms))

\* slice::last in place of slice::first
first_as_last(list) ==
    IF Len(list) = 0 THEN [some |-> FALSE, v |-> NoVm]
    ELSE [some |-> TRUE, v |-> list[Len(list)]]

\* slice::first
first(list) ==
    IF Len(list) = 0 THEN [some |-> FALSE, v |-> NoVm]
    ELSE [some |-> TRUE, v |-> list[1]]

\* a setup_private_nodes that goes on after an Err
PropagatesPrivate_dropped(r) == r.status = "panic"

\* the `?` of setup_private_nodes
PropagatesPrivate(r) == r.status # "ok"

CreateOrUpdateInfra ==
    /\ cmd = "private" /\ pc = "pn_infra"
    /\ \E r \in Res :
         LET c == [Call("infra", "create_or_update_infra") EXCEPT
                      !.target = inv.name,
                      !.args = << [k |-> "genesis_vm_count",
                                   v |-> ToDigits(IF inv.deployment_type = "New"
                                                  THEN 1 ELSE 0)],
                                  [k |-> "auditor_vm_count",
                                   v |-> ToDigits(Len(inv.auditor_vms))],
                                  [k |-> "bootstrap_node_vm_count",
                                   v |-> ToDigits(Len(inv.bootstrap_node_vms))],
                                  [k |-> "node_vm_count",
                                   v |-> ToDigits(Len(inv.node_vms))],
                                  [k |-> "uploader_vm_count",
                                   v |-> ToDigits(Len(inv.uploader_vms))],
                                  [k |-> "enable_build_vm", v |-> <<"false">>],
                                  [k |-> "setup_private_nodes", v |-> <<"true">>],
                                  [k |-> "tfvars_filename",
                                   v |-> <<inv.environment_type, ".tfvars">>] >>,
                      !.res = r]
             res == IF r = "err" THEN CollaboratorError("create_or_update_infra")
                    ELSE Ok
         IN /\ calls' = Append(calls, c)
            /\ out' = out \o (IF r = "err" THEN <<Line("Failed to create infra")>>
                              ELSE <<>>)
            /\ result' = IF PropagatesPrivate(res) THEN res ELSE result
            /\ pc' = IF PropagatesPrivate(res) THEN "done" ELSE "pn_select"
            /\ n' = IF PropagatesPrivate(res) THEN n ELSE 1
            /\ total' = IF PropagatesPrivate(res) THEN total ELSE 4
    /\ UNCHANGED <<extra_vars, cmd, cfg, inv, node_provision_failed, genesis_multiaddr,
                   private_vm_inventory, nat_gateway_inventory>>

SelectPrivateVm ==
    /\ cmd = "private" /\ pc = "pn_select"
    /\ LET found == find(inv.node_vms, LastNodePattern(inv))
           res == IF found.some THEN Ok ELSE Err("EmptyInventory(Nodes)")
       IN /\ private_vm_inventory' = found.v
          /\ out' = out \o
                    (IF found.some THEN <<>>
                     ELSE <<Line("Failed to obtain the inventory of the last vm")>>)
          /\ result' = IF PropagatesPrivate(res) THEN res ELSE result
          /\ pc' = IF PropagatesPrivate(res) THEN "done" ELSE "pn_nat"
          /\ n' = IF PropagatesPrivate(res) THEN n ELSE n + 1
    /\ UNCHANGED <<extra_vars, cmd, cfg, inv, total, node_provision_failed, genesis_multiaddr,
                   nat_gateway_inventory, calls>>

ProvisionNatGateway ==
    /\ cmd = "private" /\ pc = "pn_nat"
    /\ \E r \in Res :
         LET c == [Call("nat", "provision_nat_gateway") EXCEPT
                      !.target = inv.name,
                      !.addr = private_vm_inventory.private_ip_addr,
                      !.res = r]
             res == IF r = "err" THEN CollaboratorError("provision_nat_gateway")
                    ELSE Ok
         IN /\ calls' = Append(calls, c)
            /\ out' = out \o
                      <<print_ansible_run_banner(n, total, "Provision NAT Gateway")>>
                      \o (IF r = "err"
                          THEN <<Line("Failed to provision NAT gateway")>> ELSE <<>>)
            /\ result' = IF PropagatesPrivate(res) THEN res ELSE result
            /\ pc' = IF PropagatesPrivate(res) THEN "done" ELSE "pn_natinv"
            /\ n' = IF PropagatesPrivate(res) THEN n ELSE n + 1
    /\ UNCHANGED <<extra_vars, cmd, cfg, inv, total, node_provision_failed, genesis_multiaddr,
                   private_vm_inventory, nat_gateway_inventory>>

GetNatGatewayInventory ==
    /\ cmd = "private" /\ pc = "pn_natinv"
    /\ \E got \in NatGatewayResults :
         LET c == [Call("natinv", "get_inventory") EXCEPT
                      !.target = "NatGateway", !.refresh = TRUE,
                      !.res = got.res, !.list = got.list]
             head == first(got.list)
             res == IF got.res = "err" THEN CollaboratorError("get_inventory")
                    ELSE IF ~head.some THEN Err("EmptyInventory(NatGateway)")
                    ELSE Ok
         IN /\ calls' = Append(calls, c)
            /\ out' = out \o
                      <<print_ansible_run_banner(n, total, "Get NAT Gateway inventory")>>
                      \o (IF got.res = "err"
                          THEN <<Line("Failed to get NAT Gateway inventory")>>
                          ELSE <<>>)
            /\ nat_gateway_inventory' = IF res.status = "ok" THEN head.v
                                        ELSE nat_gateway_inventory
            /\ result' = IF PropagatesPrivate(res) THEN res ELSE result
            /\ pc' = IF PropagatesPrivate(res) THEN "done" ELSE "pn_private"
            /\ n' = IF PropagatesPrivate(res) THEN n ELSE n + 1
    /\ UNCHANGED <<extra_vars, cmd, cfg, inv, total, node_provision_failed, genesis_multiaddr,
                   private_vm_inventory>>

ProvisionPrivateNodes ==
    /\ cmd = "private" /\ pc = "pn_private"
    /\ \E r \in Res :
         LET c == [Call("private", "provision_private_nodes") EXCEPT
                      !.target = inv.name, !.vm = private_vm_inventory,
                      !.nat = nat_gateway_inventory, !.res = r]
             res == IF r = "err" THEN CollaboratorError("provision_private_nodes")
                    ELSE Ok
         IN /\ calls' = Append(calls, c)
            /\ out' = out \o
                      <<print_ansible_run_banner(n, total,
                                                 "Provision Private Nodes on the last VM")>>
                      \o (IF r = "err"
                          THEN <<Line("Failed to provision private nodes")>> ELSE <<>>)
            /\ result' = IF PropagatesPrivate(res) THEN res ELSE Ok
            /\ pc' = "done"
    /\ UNCHANGED <<extra_vars, cmd, cfg, inv, n, total, node_provision_failed, genesis_multiaddr,
                   private_vm_inventory, nat_gateway_inventory>>

(***************************************************************************)
(* The extra-vars builders applied on their own, to any configuration and  *)
(* any argument: what each one returns is kept in `extra_vars`.            *)
(***************************************************************************)
NoExtraVars ==
    [ stage |-> "", status |-> "", doc |-> <<>>, err |-> "",
      gm |-> None, count |-> NoneCount ]

Built(stage, b, gm, count) ==
    [ stage |-> stage, status |-> b.status, doc |-> b.doc, err |-> b.err,
      gm |-> gm, count |-> count ]

\* the genesis addresses a caller can pass: any string, the empty one included
GenesisAddrArgs == Multiaddrs \cup {""}

BuildBinariesDoc ==
    /\ cmd = "builders" /\ pc = "builder"
    /\ extra_vars' = Built("build", build_binaries_extra_vars_doc(cfg),
                           None, NoneCount)
    /\ pc' = "done"
    /\ UNCHANGED <<cmd, cfg, inv, n, total, node_provision_failed,
                   genesis_multiaddr, private_vm_inventory,
                   nat_gateway_inventory, calls, out, result>>

BuildNodeDoc ==
    /\ cmd = "builders" /\ pc = "builder"
    /\ \E gm \in {None} \cup {Some(a) : a \in GenesisAddrArgs},
          count \in {NoneCount, [some |-> TRUE, v |-> cfg.node_count]} :
         extra_vars' = Built("node", build_node_extra_vars_doc(cfg, gm, count),
                             gm, count)
    /\ pc' = "done"
    /\ UNCHANGED <<cmd, cfg, inv, n, total, node_provision_failed,
                   genesis_multiaddr, private_vm_inventory,
                   nat_gateway_inventory, calls, out, result>>

BuildFaucetDoc ==
    /\ cmd = "builders" /\ pc = "builder"
    /\ \E a \in GenesisAddrArgs :
         extra_vars' = Built("faucet", build_faucet_extra_vars_doc(cfg, a),
                             Some(a), NoneCount)
    /\ pc' = "done"
    /\ UNCHANGED <<cmd, cfg, inv, n, total, node_provision_failed,
                   genesis_multiaddr, private_vm_inventory,
                   nat_gateway_inventory, calls, out, result>>

BuildRpcClientDoc ==
    /\ cmd = "builders" /\ pc = "builder"
    /\ \E a \in GenesisAddrArgs :
         extra_vars' = Built("rpc",
                             build_safenode_rpc_client_extra_vars_doc(cfg, a),
                             Some(a), NoneCount)
    /\ pc' = "done"
    /\ UNCHANGED <<cmd, cfg, inv, n, total, node_provision_failed,
                   genesis_multiaddr, private_vm_inventory,
                   nat_gateway_inventory, calls, out, result>>

(***************************************************************************)
(* The specification: a run of `deploy`, a run of `setup_private_nodes`,   *)
(* or one application of an extra-vars builder.                            *)
(***************************************************************************)
Init ==
    /\ cmd \in {"deploy", "private", "builders"}
    /\ cfg \in (IF cmd = "private" THEN {NoDeployCmd} ELSE DeployCmds)
    /\ inv \in (IF cmd = "private" THEN DeploymentInventories
                ELSE {NoDeploymentInventory})
    /\ pc = CASE cmd = "deploy" -> "create_infra"
               [] cmd = "private" -> "pn_infra"
               [] OTHER -> "builder"
    /\ extra_vars = NoExtraVars
    /\ n = 0
    /\ total = 0
    /\ node_provision_failed = FALSE
    /\ genesis_multiaddr = ""
    /\ private_vm_inventory = NoVm
    /\ nat_gateway_inventory = NoVm
    /\ calls = <<>>
    /\ out = <<>>
    /\ result = Running

Next ==
    \/ CreateInfra
    \/ BuildSafeNetworkBinaries
    \/ ProvisionGenesisNode
    \/ GetGenesisMultiaddr
    \/ ProvisionRemainingNodes
    \/ ProvisionFaucet
    \/ ProvisionSafenodeRpcClient
    \/ ListInventory
    \/ CreateOrUpdateInfra
    \/ SelectPrivateVm
    \/ ProvisionNatGateway
    \/ GetNatGatewayInventory
    \/ ProvisionPrivateNodes
    \/ BuildBinariesDoc
    \/ BuildNodeDoc
    \/ BuildFaucetDoc
    \/ BuildRpcClientDoc

Spec == Init /\ [][Next]_vars

(***************************************************************************)
(* Reading the record of a run.                                            *)
(***************************************************************************)
Deploy == cmd = "deploy"
Private == cmd = "private"
CallIdx == 1..Len(calls)

\* the calls of a stage
StageCalls(stage) == {i \in CallIdx : calls[i].stage = stage}
\* the playbook run of a stage
Playbooks(stage) == {i \in StageCalls(stage) : calls[i].op = "run_playbook"}
\* the calls of an operation
OpCalls(op) == {i \in CallIdx : calls[i].op = op}

\* the values a document gives to a key
DocValues(doc, key) ==
    {doc[i].v : i \in {j \in 1..Len(doc) : doc[j].t = "kv" /\ doc[j].k = key}}

\* how often a line was printed
Printed(text) == Cardinality({i \in 1..Len(out) : out[i] = Line(text)})
WarningText == "Some nodes failed to provision without error."

StageOrder ==
    <<"infra", "build", "genesis", "discover", "nodes", "faucet", "rpc", "list">>
Rank(stage) == CHOOSE r \in 1..Len(StageOrder) : StageOrder[r] = stage

(***************************************************************************)
(* C1: when the remaining-node stage returns an error and every other      *)
(* stage succeeds, the run still makes the faucet, RPC-client and final    *)
(* listing calls, execute returns Ok and the warning line is printed       *)
(* exactly once; when the remaining-node stage succeeds the warning is     *)
(* never printed.                                                          *)
(***************************************************************************)
C1_SoftFail ==
    Deploy =>
      /\ ( /\ pc = "done"
           /\ \E i \in StageCalls("nodes") : calls[i].res = "err"
           /\ \A i \in CallIdx : calls[i].stage # "nodes" => calls[i].res = "ok" )
         => /\ Playbooks("faucet") # {}
            /\ Playbooks("rpc") # {}
            /\ StageCalls("list") # {}
            /\ result = Ok
            /\ Printed(WarningText) = 1
      /\ (\E i \in StageCalls("nodes") : calls[i].res = "ok")
         => Printed(WarningText) = 0

C1_Witness ==
    /\ Deploy /\ pc = "done" /\ result = Ok
    /\ \E i \in StageCalls("nodes") : calls[i].res = "err"
    /\ Printed(WarningText) = 1

(***************************************************************************)
(* C2: a failure of infra creation, build, genesis provisioning, address   *)
(* discovery, faucet, RPC-client or the final listing makes execute return *)
(* an error, and no collaborator call follows the failed one.              *)
(***************************************************************************)
FatalStages == {"infra", "build", "genesis", "discover", "faucet", "rpc", "list"}

C3_StageOrder ==
    Deploy =>
      /\ \A i, j \in CallIdx :
           i < j => /\ Rank(calls[i].stage) <= Rank(calls[j].stage)
                    /\ (calls[i].stage = calls[j].stage => calls[i].op # calls[j].op)
      /\ \A i, j \in 1..Len(out) :
           (i < j /\ out[i].kind = "banner" /\ out[j].kind = "banner")
           => out[i].text # out[j].text

C3_Witness ==
    /\ Deploy /\ pc = "done" /\ result = Ok
    /\ StageCalls("build") # {}
    /\ \A r \in 1..Len(StageOrder) : StageCalls(StageOrder[r]) # {}

(***************************************************************************)
(* C4: a playbook of the remaining-node, faucet or RPC-client stage runs   *)
(* only after the genesis playbook and an address discovery have           *)
(* succeeded, and its document gives genesis_multiaddr exactly the address *)
(* that the discovery of this run returned.                                *)
(***************************************************************************)
C4_GenesisAddress ==
    Deploy =>
      \A i \in Playbooks("nodes") \cup Playbooks("faucet") \cup Playbooks("rpc") :
        /\ \E j \in Playbooks("genesis") : j < i /\ calls[j].res = "ok"
        /\ \E k \in OpCalls("get_genesis_multiaddr") :
             /\ k < i
             /\ calls[k].res = "ok"
             /\ DocValues(calls[i].doc, "genesis_multiaddr") = {<<calls[k].value>>}

C4_Witness ==
    /\ Deploy
    /\ Playbooks("nodes") # {} /\ Playbooks("faucet") # {} /\ Playbooks("rpc") # {}
    /\ genesis_multiaddr \in Multiaddrs

(***************************************************************************)
(* C5: the build stage runs iff the variant requires a build (never for    *)
(* Versioned, always for Branch, for Main iff feature flags are present),  *)
(* and the apply call of the run carries use_custom_bin equal to that flag *)
(* and node_count equal to the configured VM count.                        *)
(***************************************************************************)
BuildRequired(t) ==
    \/ t.tag = "Branch"
    \/ t.tag = "Main" /\ t.safenode_features.some

C5_BuildRequired ==
    Deploy =>
      LET required == BuildRequired(cfg.sn_codebase_type)
      IN /\ \A i \in OpCalls("apply") :
              calls[i].args =
                << [k |-> "node_count", v |-> ToDigits(cfg.vm_count)],
                   [k |-> "use_custom_bin", v |-> <<BoolToString(required)>>] >>
         /\ (StageCalls("build") # {} \/ pc = "build") => required
         /\ (required /\ \E i \in CallIdx : Rank(calls[i].stage) > Rank("build"))
            => StageCalls("build") # {}
         /\ (StageCalls("build") # {}) => OpCalls("apply") # {}

C5_Witness ==
    /\ Deploy
    /\ StageCalls("build") # {} /\ StageCalls("genesis") # {}
    /\ cfg.sn_codebase_type.tag = "Main"

(***************************************************************************)
(* Reading a run of setup_private_nodes.                                   *)
(***************************************************************************)
\* host selection has been performed in this run
Selected ==
    /\ Private
    /\ pc \notin {"pn_infra", "pn_select"}
    /\ \E i \in OpCalls("create_or_update_infra") : calls[i].res = "ok"

\* the entries of the node group named <deployment>-node-<size of the group>
LastNodes ==
    {i \in 1..Len(inv.node_vms) :
        inv.node_vms[i].name =
            <<inv.name, "-", "node", "-">> \o ToDigits(Len(inv.node_vms))}

NatStages == {"provision_nat_gateway", "get_inventory", "provision_private_nodes"}

(***************************************************************************)
(* C6: private-node provisioning is preceded by a successful NAT-gateway   *)
(* provisioning and then by a successful NAT-gateway inventory fetch made  *)
(* with refresh, and the NAT-gateway entry it is given is the first entry  *)
(* of that fetch; the fetch itself only happens after the NAT gateway has  *)
(* been provisioned.                                                       *)
(***************************************************************************)
C6_NatGatewayOrder ==
    Private =>
      /\ \A i \in OpCalls("provision_private_nodes") :
           \E j \in OpCalls("provision_nat_gateway"), k \in OpCalls("get_inventory") :
             /\ j < k /\ k < i
             /\ calls[j].res = "ok"
             /\ calls[k].res = "ok" /\ calls[k].refresh
             /\ calls[k].target = "NatGateway"
             /\ Len(calls[k].list) > 0
             /\ calls[i].nat = calls[k].list[1]
      /\ \A k \in OpCalls("get_inventory") :
           /\ calls[k].refresh
           /\ \E j \in OpCalls("provision_nat_gateway") : j < k /\ calls[j].res = "ok"

C6_Witness ==
    /\ Private
    /\ \E i \in OpCalls("provision_private_nodes"), k \in OpCalls("get_inventory") :
         Len(calls[k].list) = 2 /\ calls[i].nat = calls[k].list[1]

(***************************************************************************)
(* C7: with a snapshot that has no node entries, host selection fails with *)
(* EmptyInventory(Nodes), and the run makes no NAT-gateway provisioning,   *)
(* no NAT-gateway inventory fetch and no private-node provisioning.        *)
(***************************************************************************)
C7_EmptyNodes ==
    (Private /\ Len(inv.node_vms) = 0) =>
      /\ \A i \in CallIdx : calls[i].op \notin NatStages
      /\ Selected => (pc = "done" /\ result = Err("EmptyInventory(Nodes)"))

C7_Witness ==
    /\ Selected /\ Len(inv.node_vms) = 0
    /\ result = Err("EmptyInventory(Nodes)")
    /\ Len(calls) = 1

(***************************************************************************)
(* C8: in setup_private_nodes every failure is fatal: after a failed call, *)
(* a failed host selection or an empty NAT-gateway group the run has ended *)
(* with an error and made no further call; the run returns Ok only after   *)
(* the infra update, the selection, the NAT-gateway provisioning, the      *)
(* fetch of a non-empty NAT-gateway group and the private-node             *)
(* provisioning have all succeeded.                                        *)
(***************************************************************************)
C8_AllFatal ==
    Private =>
      /\ \A i \in CallIdx :
           calls[i].res = "err"
           => (i = Len(calls) /\ pc = "done" /\ result.status = "err")
      /\ \A i \in OpCalls("get_inventory") :
           (calls[i].res = "ok" /\ Len(calls[i].list) = 0)
           => /\ i = Len(calls) /\ pc = "done"
              /\ result = Err("EmptyInventory(NatGateway)")
      /\ (Selected /\ ~find(inv.node_vms, LastNodePattern(inv)).some)
         => (Len(calls) = 1 /\ pc = "done" /\ result.status = "err")
      /\ result.status = "ok"
         => /\ pc = "done"
            /\ Len(calls) = 4
            /\ \A i \in CallIdx : calls[i].res = "ok"
            /\ calls[1].op = "create_or_update_infra"
            /\ calls[2].op = "provision_nat_gateway"
            /\ calls[3].op = "get_inventory" /\ Len(calls[3].list) > 0
            /\ calls[4].op = "provision_private_nodes"
            /\ find(inv.node_vms, LastNodePattern(inv)).some

C8_Witness ==
    /\ Private /\ pc = "done"
    /\ result = Err("EmptyInventory(NatGateway)")
    /\ Len(calls) = 3

(***************************************************************************)
(* C9: whenever the node group of the snapshot is non-empty, the host      *)
(* selection succeeds and selects the entry named                          *)
(* <deployment>-node-<size of the group>; the NAT-gateway provisioning is  *)
(* given that entry's private address and the private-node provisioning    *)
(* that entry; with an empty group the selection fails with                *)
(* EmptyInventory(Nodes).                                                  *)
(***************************************************************************)
C9_SelectsLastNode ==
    Selected =>
      /\ Len(inv.node_vms) > 0
         => /\ result # Err("EmptyInventory(Nodes)")
            /\ \E i \in LastNodes : private_vm_inventory = inv.node_vms[i]
            /\ \A i \in OpCalls("provision_nat_gateway") :
                 calls[i].addr = private_vm_inventory.private_ip_addr
            /\ \A i \in OpCalls("provision_private_nodes") :
                 calls[i].vm = private_vm_inventory
      /\ Len(inv.node_vms) = 0 => result = Err("EmptyInventory(Nodes)")

(***************************************************************************)
(* C10: when the build or the genesis host group comes back empty, the     *)
(* stage ends with the EmptyInventory error of that role, execute returns  *)
(* it, and the stage makes no reachability wait and runs no playbook.      *)
(***************************************************************************)
C10_EmptyGroupIsAnError ==
    Deploy =>
      \A i \in OpCalls("inventory_list") :
        (calls[i].res = "ok" /\ Len(calls[i].list) = 0)
        => /\ i = Len(calls)
           /\ pc = "done"
           /\ result = Err(IF calls[i].stage = "build"
                           THEN "EmptyInventory(Build)"
                           ELSE "EmptyInventory(Genesis)")

(***************************************************************************)
(* Reading the documents: those a builder returned on its own and those a  *)
(* run of execute passed to the runner, each with the builder it is from.  *)
(***************************************************************************)
Builders == cmd = "builders"

\* the builder that makes the document of a stage of execute
BuilderOf(stage) == IF stage \in {"genesis", "nodes"} THEN "node" ELSE stage

\* a builder has returned Ok(document)
Returned(stage) ==
    /\ Builders /\ pc = "done"
    /\ extra_vars.stage = stage /\ extra_vars.status = "ok"

Documents ==
    {[stage |-> BuilderOf(calls[i].stage), doc |-> calls[i].doc] :
        i \in {j \in CallIdx : calls[j].hasdoc}}
    \cup
    (IF Builders /\ pc = "done" /\ extra_vars.status = "ok"
     THEN {[stage |-> extra_vars.stage, doc |-> extra_vars.doc]} ELSE {})

HasKey(doc, key) == DocValues(doc, key) # {}

\* the text ends with ", " followed at once by "}"
TrailingSeparator(doc) ==
    /\ Len(doc) >= 2
    /\ doc[Len(doc)] = CloseTok
    /\ doc[Len(doc) - 1] = SepTok

(***************************************************************************)
(* C11: no document of the build, node, faucet or RPC-client builder has   *)
(* the separator ", " immediately before its closing "}".                  *)
(***************************************************************************)
C11_NoTrailingSeparator ==
    \A d \in Documents : ~TrailingSeparator(d.doc)

(***************************************************************************)
(* C12: a node document has the key genesis_multiaddr iff the builder was  *)
(* given a genesis address and the key node_instance_count iff it was      *)
(* given an instance count; in execute the genesis playbook's document has *)
(* neither key, and the remaining-node playbook's document has             *)
(* genesis_multiaddr equal to the discovered address and                   *)
(* node_instance_count equal to the requested node count.                  *)
(***************************************************************************)
C12_OptionalNodeKeys ==
    /\ Returned("node")
       => /\ HasKey(extra_vars.doc, "genesis_multiaddr") <=> extra_vars.gm.some
          /\ extra_vars.gm.some
             => DocValues(extra_vars.doc, "genesis_multiaddr") = {<<extra_vars.gm.v>>}
          /\ HasKey(extra_vars.doc, "node_instance_count") <=> extra_vars.count.some
          /\ extra_vars.count.some
             => DocValues(extra_vars.doc, "node_instance_count")
                  = {ToDigits(extra_vars.count.v)}
    /\ Deploy
       => /\ \A i \in Playbooks("genesis") :
               /\ ~HasKey(calls[i].doc, "genesis_multiaddr")
               /\ ~HasKey(calls[i].doc, "node_instance_count")
          /\ \A i \in Playbooks("nodes") :
               /\ DocValues(calls[i].doc, "genesis_multiaddr") = {<<genesis_multiaddr>>}
               /\ genesis_multiaddr \in Multiaddrs
               /\ DocValues(calls[i].doc, "node_instance_count")
                    = {ToDigits(cfg.node_count)}

C12_Witness ==
    /\ Deploy
    /\ Playbooks("genesis") # {} /\ Playbooks("nodes") # {}
    /\ \E i \in Playbooks("nodes") : HasKey(calls[i].doc, "node_instance_count")

\* the builder alone, given an address and no count
C12_WitnessBuilder ==
    /\ Returned("node") /\ extra_vars.gm.some /\ ~extra_vars.count.some

(***************************************************************************)
(* C13: the faucet and the RPC-client builder return an error when given   *)
(* an empty genesis address, and for a non-empty one return a document     *)
(* whose genesis_multiaddr is that address.                                *)
(***************************************************************************)
C13_EmptyAddressRejected ==
    (Builders /\ pc = "done" /\ extra_vars.stage \in {"faucet", "rpc"})
    => IF extra_vars.gm.v = ""
       THEN extra_vars.status = "err"
       ELSE /\ extra_vars.status = "ok"
            /\ DocValues(extra_vars.doc, "genesis_multiaddr") = {<<extra_vars.gm.v>>}

\* the node documents: returned by the builder, or passed by execute
NodeDocuments == {d.doc : d \in {e \in Documents : e.stage = "node"}}

\* the number of key/value pairs of a document that carry one of the keys
KeyCount(doc, keys) ==
    Cardinality({i \in 1..Len(doc) : doc[i].t = "kv" /\ doc[i].k \in keys})

\* a url names the artifact it locates
Locates(url, artifacts) == \E i \in 1..Len(url) : url[i] \in artifacts

(***************************************************************************)
(* C14: for every variant the node document has a node_manager_archive_url *)
(* key that locates the manager artifact and a                             *)
(* node_manager_daemon_archive_url key that locates the manager-daemon     *)
(* artifact.                                                               *)
(***************************************************************************)
C14_ManagerAndDaemonUrls ==
    \A doc \in NodeDocuments :
      /\ HasKey(doc, "node_manager_archive_url")
      /\ \A v \in DocValues(doc, "node_manager_archive_url") :
           Locates(v, {"safenode-manager", "safenode-manager-latest"})
      /\ HasKey(doc, "node_manager_daemon_archive_url")
      /\ \A v \in DocValues(doc, "node_manager_daemon_archive_url") :
           Locates(v, {"safenode-manager-daemon", "safenode-manager-daemon-latest"})

(***************************************************************************)
(* C15: with log shipping configured (stack S, hosts h1..hk) the node      *)
(* document has logstash_stack_name = S and ends with the array            *)
(* "logstash_hosts": ["h1", ..., "hk"] holding every host, with no         *)
(* separator after the last host and the "]" before the closing "}".       *)
(***************************************************************************)
RECURSIVE HostArray(_)
\* "h1", "h2", ..., "hk" as the claim writes it
HostArray(hosts) ==
    IF Len(hosts) = 0 THEN <<>>
    ELSE IF Len(hosts) = 1 THEN <<ElemTok(hosts[1])>>
    ELSE <<ElemTok(hosts[1]), SepTok>> \o HostArray(Tail(hosts))

C15_LogstashArray ==
    cfg.logstash_details.some =>
      \A doc \in NodeDocuments :
        LET array == <<ArrOpenTok>> \o HostArray(cfg.logstash_details.hosts)
                     \o <<ArrCloseTok>>
        IN /\ DocValues(doc, "logstash_stack_name") = {<<cfg.logstash_details.stack>>}
           /\ Len(doc) > Len(array)
           /\ doc[Len(doc)] \in {CloseTok, SpaceCloseTok}
           /\ SubSeq(doc, Len(doc) - Len(array), Len(doc) - 1) = array

(***************************************************************************)
(* C16: a node document carries exactly one node artifact locator: for a   *)
(* Versioned variant the key version with the configured version and no    *)
(* node_archive_url, for Main and Branch the key node_archive_url and no   *)
(* version.                                                                *)
(***************************************************************************)
C16_OneArtifactLocator ==
    \A doc \in NodeDocuments :
      /\ KeyCount(doc, {"node_archive_url", "version"}) = 1
      /\ IF cfg.sn_codebase_type.tag = "Versioned"
         THEN /\ DocValues(doc, "version") = {<<cfg.sn_codebase_type.safenode_version>>}
              /\ ~HasKey(doc, "node_archive_url")
         ELSE /\ HasKey(doc, "node_archive_url")
              /\ \A v \in DocValues(doc, "node_archive_url") :
                   Locates(v, {"safenode", "safenode-latest",
                               "maidsafe/main/safenode-"})
              /\ ~HasKey(doc, "version")

C16_Witness ==
    /\ Returned("node")
    /\ cfg.sn_codebase_type = Versioned("1.2.3")
    /\ DocValues(extra_vars.doc, "version") = {<<"1.2.3">>}

(***************************************************************************)
(* C17: every document that execute passes to the runner has testnet_name  *)
(* equal to the deployment name; the documents of the genesis,             *)
(* remaining-node, faucet and RPC-client stages also have provider; the    *)
(* build document is only ever passed with custom_bin = true.              *)
(***************************************************************************)
ProvisioningStages == {"genesis", "nodes", "faucet", "rpc"}

C17_NameAndProvider ==
    Deploy =>
      \A i \in OpCalls("run_playbook") :
        /\ calls[i].hasdoc
        /\ DocValues(calls[i].doc, "testnet_name") = {<<cfg.name>>}
        /\ calls[i].stage \in ProvisioningStages
           => DocValues(calls[i].doc, "provider") = {<<cfg.cloud_provider>>}
        /\ calls[i].stage = "build"
           => DocValues(calls[i].doc, "custom_bin") = {<<"true">>}

C17_Witness ==
    /\ Deploy
    /\ \E i \in Playbooks("build") :
         DocValues(calls[i].doc, "custom_bin") = {<<"true">>}
    /\ Playbooks("rpc") # {}

(***************************************************************************)
(* C18: every banner of execute shows a total of 5 when the build stage    *)
(* runs and of 4 otherwise, the build banner is number 1, the banners of a *)
(* run are numbered 1, 2, 3, ... in the order printed, none is numbered    *)
(* above the total, and a run that reaches the RPC-client stage has        *)
(* printed exactly 1..total.                                               *)
(***************************************************************************)
IsBanner(e) == e.kind = "banner"
Banners == SelectSeq(out, IsBanner)

C18_BannerNumbers ==
    Deploy =>
      LET expected == IF BuildRequired(cfg.sn_codebase_type) THEN 5 ELSE 4
      IN /\ \A i \in 1..Len(Banners) :
              /\ Banners[i].total = expected
              /\ Banners[i].n = i
              /\ Banners[i].n <= Banners[i].total
              /\ Banners[i].text = "Build Custom Binaries" => Banners[i].n = 1
         /\ (\E i \in 1..Len(Banners) :
               Banners[i].text = "Provision RPC Client on Genesis Node")
            => Len(Banners) = expected
         /\ (BuildRequired(cfg.sn_codebase_type) /\ Len(Banners) > 0)
            => Banners[1].text = "Build Custom Binaries"

C18_Witness ==
    /\ Deploy
    /\ Len(Banners) = 5
    /\ Banners[5] = print_ansible_run_banner(5, 5, "Provision RPC Client on Genesis Node")

(***************************************************************************)
(* C19: in the build and in the genesis stage the playbook runs only after *)
(* the inventory lookup and the SSH wait on the looked-up host have both   *)
(* succeeded; when the wait fails the stage runs no playbook and execute   *)
(* returns the wait's error.                                               *)
(***************************************************************************)
C19_WaitBeforePlaybook ==
    Deploy =>
      /\ \A i \in Playbooks("build") \cup Playbooks("genesis") :
           \E j, k \in StageCalls(calls[i].stage) :
             /\ j < k /\ k < i
             /\ calls[j].op = "inventory_list" /\ calls[j].res = "ok"
             /\ calls[k].op = "wait_for_ssh_availability" /\ calls[k].res = "ok"
             /\ calls[k].addr = calls[j].list[1].ip
      /\ \A k \in OpCalls("wait_for_ssh_availability") :
           calls[k].res = "err"
           => /\ k = Len(calls)
              /\ pc = "done"
              /\ result = CollaboratorError("wait_for_ssh_availability")

C19_Witness ==
    /\ Deploy /\ pc = "done"
    /\ Len(calls) > 0
    /\ calls[Len(calls)].op = "wait_for_ssh_availability"
    /\ calls[Len(calls)].stage = "genesis"
    /\ calls[Len(calls)].res = "err"
    /\ result.status = "err"

(***************************************************************************)
(* C20: every inventory reference of the main pipeline has the form        *)
(* <deployment-name>_<role>_inventory_<provider>.yml, with the role of the *)
(* stage (build; genesis for genesis, faucet and RPC client; node for the  *)
(* remaining nodes) and the deployment's cloud provider, the same provider *)
(* that the stage's document gives as `provider`.                          *)
(***************************************************************************)
RoleOf(stage) ==
    CASE stage = "build" -> "build"
      [] stage = "nodes" -> "node"
      [] OTHER -> "genesis"

\* the text ends with the suffix
EndsWith(text, suffix) ==
    /\ Len(text) >= Len(suffix)
    /\ SubSeq(text, Len(text) - Len(suffix) + 1, Len(text)) = suffix

C20_InventoryReference ==
    Deploy =>
      \A i \in OpCalls("inventory_list") \cup OpCalls("run_playbook") :
        /\ EndsWith(calls[i].inventory,
                    <<cfg.name, "_", RoleOf(calls[i].stage), "_inventory_",
                      cfg.cloud_provider, ".yml">>)
        /\ (calls[i].hasdoc /\ calls[i].stage \in ProvisioningStages)
           => \A v \in DocValues(calls[i].doc, "provider") :
                EndsWith(calls[i].inventory, v \o <<".yml">>)

(***************************************************************************)
(* C21: the warning block is printed only at the very end of a run of      *)
(* execute that returns Ok, after the final listing has succeeded; when    *)
(* the remaining-node stage failed and the faucet, the RPC-client stage or *)
(* the final listing then fails, execute returns that later error and the  *)
(* warning is never printed.                                               *)
(***************************************************************************)
LaterStages == {"faucet", "rpc", "list"}

C21_WarningOnlyAtTheEnd ==
    Deploy =>
      /\ Printed(WarningText) > 0
         => /\ pc = "done"
            /\ result = Ok
            /\ Printed(WarningText) = 1
            /\ Len(calls) > 0
            /\ calls[Len(calls)].op = "list_inventory"
            /\ calls[Len(calls)].res = "ok"
            /\ EndsWith(out, Warning)
      /\ \A i \in CallIdx :
           ( /\ calls[i].stage \in LaterStages /\ calls[i].res = "err"
             /\ \E j \in StageCalls("nodes") : calls[j].res = "err" )
           => /\ result = CollaboratorError(calls[i].op)
              /\ Printed(WarningText) = 0

C21_Witness ==
    /\ Deploy /\ pc = "done"
    /\ \E j \in StageCalls("nodes") : calls[j].res = "err"
    /\ \E i \in StageCalls("list") : calls[i].res = "err"
    /\ result = CollaboratorError("list_inventory")
    /\ Printed(WarningText) = 0

(***************************************************************************)
(* C22: for every deployment configuration, log shipping with an empty     *)
(* host list included, each of the four builders returns a value, a        *)
(* document or an error, and never aborts.                                 *)
(***************************************************************************)
C22_BuildersReturn ==
    (Builders /\ pc = "done") => extra_vars.status \in {"ok", "err"}

(***************************************************************************)
(* C23: in every extra-vars document, of every stage and every variant,    *)
(* each key appears at most once.                                          *)
(***************************************************************************)
C23_KeysUnique ==
    \A d \in Documents :
      \A i, j \in 1..Len(d.doc) :
        (d.doc[i].t = "kv" /\ d.doc[j].t = "kv" /\ d.doc[i].k = d.doc[j].k)
        => i = j

====
